---- MODULE Spec2Model ----
(***************************************************************************)
(* Model of the HSAF snow geocoder: the Geocoder class                     *)
(* (src/geocoder/geocoder.py), its batch driver (the __main__ block of the *)
(* same file) and the command line front end (src/geocoder_app.py).        *)
(*                                                                         *)
(* A path is the sequence of its dot-separated components, so that         *)
(* str.split('.') and str.endswith(ext) can be computed.  A grid is a      *)
(* numpy array seen as a view on the buffer read from the container: its   *)
(* shape and, per axis, whether the view walks the buffer backwards (what  *)
(* numpy.flip produces).  A geotransform coefficient is its decimal text.  *)
(* A call into xarray or GDAL that can fail for reasons outside the        *)
(* program (driver, disk) takes its outcome from a small set; a failing    *)
(* call raises.                                                            *)
(***************************************************************************)
EXTENDS Integers, Sequences, FiniteSets, TLC

\* Largest number of files the batch driver's glob returns.
MaxFiles == 2

----------------------------------------------------------------------------
(* The registry tables of class Geocoder. *)

PROJECTION_MAP ==
    ("H10" :> "GEOS") @@ ("H34" :> "GEOS") @@ ("H43" :> "GEOS_MTG") @@ ("H65" :> "EASE")

TRANSFORM_DICT ==
    ("H10" :> <<"3770007.5181810227", "-3000.4031658172607", "0.0",
                "2635854.6990046464", "0.0", "3000.4031658172607">>) @@
    ("H11" :> <<"-25.125", "0.25", "0.0", "75.125", "0.0", "-0.25">>) @@
    ("H34" :> <<"5567248.074173927", "-3000.4031658172607", "0.0",
                "-5567248.074173927", "0.0", "3000.4031658172607">>) @@
    ("H13" :> <<"-25.125", "0.25", "0.0", "75.125", "0.0", "-0.25">>) @@
    ("H12" :> <<"-25.005", "0.01", "0.0", "75.005", "0.0", "-0.01">>) @@
    ("H35" :> <<"-180.0", "0.01", "0.0", "90.0", "0.0", "-0.01">>) @@
    ("H43" :> <<"-5567999.994203018", "1999.9999979177508", "0.0",
                "5567999.994203017", "0.0", "-1999.9999979177508">>) @@
    ("H65" :> <<"-9000000.0", "25000.0", "0.0", "9000000.0", "0.0", "-25000.0">>)

DATA_KEY ==
    ("H10" :> "SC") @@ ("H11" :> "rssc") @@ ("H34" :> "SC") @@ ("H35" :> "rssc") @@
    ("H12" :> "rssc") @@ ("H13" :> "rssc") @@ ("H43" :> "SC") @@ ("H65" :> "swe")

DATA_SHAPE ==
    ("H10" :> <<916, 1902>>) @@ ("H11" :> <<201, 281>>) @@ ("H34" :> <<3712, 3712>>) @@
    ("H35" :> <<8999, 35999>>) @@ ("H12" :> <<5001, 7001>>) @@ ("H13" :> <<201, 281>>) @@
    ("H43" :> <<5568, 5568>>) @@ ("H65" :> <<720, 720>>)

\* The keys of the three dict literals, one per entry, in the order written.
TRANSFORM_DICT_keys == <<"H10", "H11", "H34", "H13", "H12", "H35", "H43", "H65">>
DATA_KEY_keys == <<"H10", "H11", "H34", "H35", "H12", "H13", "H43", "H65">>
DATA_SHAPE_keys == <<"H10", "H11", "H34", "H35", "H12", "H13", "H43", "H65">>

----------------------------------------------------------------------------
(* Inputs. *)

\* Product codes a caller passes: the eight registered ones, one that is not
\* registered and one in lower case.
ProductInputs == {"H10", "H11", "H12", "H13", "H34", "H35", "H43", "H65", "ZZ9", "h10"}

\* str.upper() on the product codes above.
Upper(s) == IF s = "h10" THEN "H10" ELSE s

CrsInputs == {"4326", "GEOS", "6931"}

\* Extensions of the input files a caller names.  None is a suffix of another,
\* so on these str.endswith(ext) is equality with the last component.
ExtInputs == {"hdf", "h5", "H5", "grib2", "nc"}

VarInputs == {"data", "SC", "rssc", "swe"}

ShapeInputs == {DATA_SHAPE[p] : p \in DOMAIN DATA_SHAPE} \cup {<<2, 2>>}

\* What is at an input path: nothing, or a container holding one 2-D variable.
NoFile == [exists |-> FALSE, var |-> "", shape |-> <<>>]

Containers ==
    {NoFile} \cup {[exists |-> TRUE, var |-> v, shape |-> s] : v \in VarInputs, s \in ShapeInputs}

InPath(ext) == <<"in", ext>>
OutPath == <<"out", "tif">>

\* The names glob1(folder, '*ndsi*.hdf') can return, in the order returned.
BatchNames ==
    << <<"f1_ndsi", "hdf">>, <<"f2_ndsi", "hdf">>, <<"f3_ndsi", "hdf">>, <<"f4_ndsi", "hdf">> >>

\* file.split('.')[0] + '.tif'
BatchOutfile(file) == <<file[1], "tif">>

\* The names tempfile.mktemp(suffix='.tif') and NamedTemporaryFile(suffix='.vrt')
\* draw from.
TmpTifNames == {<<"tmp", "tif">>}
TmpVrtNames == {<<"tmp", "vrt">>}

InputPaths == {InPath(e) : e \in ExtInputs} \cup {BatchNames[k] : k \in DOMAIN BatchNames}

OutputPaths ==
    {OutPath} \cup {BatchOutfile(BatchNames[k]) : k \in DOMAIN BatchNames}
    \cup TmpTifNames \cup TmpVrtNames

----------------------------------------------------------------------------
(* Grids. *)

NoData == [shape |-> <<>>, rev |-> <<>>]

\* The array xarray returns for a variable of the given shape.
RawGrid(shape) == [shape |-> shape, rev |-> <<FALSE, FALSE>>]

\* The buffer position that element [i][j] (0-based) of the grid shows.
At(g, i, j) ==
    << IF g.rev[1] THEN g.shape[1] - 1 - i ELSE i,
       IF g.rev[2] THEN g.shape[2] - 1 - j ELSE j >>

\* numpy.flipud(m): the rows reversed, the columns kept.
np_flipud(g) == [g EXCEPT !.rev = <<~g.rev[1], g.rev[2]>>]

\* numpy.flip(m) with no axis: every axis reversed.
np_flip(g) == [g EXCEPT !.rev = <<~g.rev[1], ~g.rev[2]>>]

----------------------------------------------------------------------------
(* Files the program writes. *)

Absent == [kind |-> "absent", gt |-> <<>>, proj |-> "", size |-> <<>>, ref |-> <<>>]
\* A file that was at the output path before the run.
OldFile == [kind |-> "old", gt |-> <<>>, proj |-> "", size |-> <<>>, ref |-> <<>>]

VARIABLES
    pc,             \* where the program is
    caller,         \* who called project(): "none", "lib", "cli", "batch", "test"
    self,           \* the Geocoder object
    data,           \* the grid project() / read_data() holds
    temp_filename,  \* what write_data returned
    disk,           \* input path -> container
    fs,             \* output path -> file
    pre,            \* fs when this run of project() started
    error,          \* the exception that is propagating, or "none"
    calls,          \* the calls this run made to read_data, write_data, project_to_wgs84
    stdout,         \* messages printed
    cli,            \* state of the geocode command
    batch           \* state of the batch driver

vars == <<pc, caller, self, data, temp_filename, disk, fs, pre, error, calls, stdout, cli, batch>>

NoSelf ==
    [product |-> "", file |-> <<>>, outfile |-> <<>>, engine |-> "", projection_key |-> "",
     crs |-> "", rotation |-> FALSE]

\* Geocoder.__init__
Geocoder(product, file, outfile, crs) ==
    LET p == Upper(product) IN
    [product |-> p,
     file |-> file,
     outfile |-> outfile,
     engine |-> IF p \notin {"H10", "H34", "H43", "H65"} THEN "cfgrib" ELSE "netcdf4",
     projection_key |-> IF p \in DOMAIN PROJECTION_MAP THEN PROJECTION_MAP[p] ELSE "WGS_84",
     crs |-> crs,
     rotation |-> p \in {"H10", "H34"}]

NoCli ==
    [product |-> "", crs |-> "", input_file |-> <<>>, checks |-> <<>>, caught |-> "none",
     exit |-> -1]
NoBatch == [files |-> <<>>, i |-> 0, attempted |-> <<>>, failed |-> {}]

Init ==
    /\ pc = "idle"
    /\ caller = "none"
    /\ self = NoSelf
    /\ data = NoData
    /\ temp_filename = <<>>
    /\ disk = [p \in InputPaths |-> NoFile]
    /\ fs \in {[p \in OutputPaths |-> Absent],
               [p \in OutputPaths |-> IF p = OutPath THEN OldFile ELSE Absent]}
    /\ pre = fs
    /\ error = "none"
    /\ calls = <<>>
    /\ stdout = <<>>
    /\ cli = NoCli
    /\ batch = NoBatch

----------------------------------------------------------------------------
(* Outcomes of a method: a returned value or a raised exception. *)

Return(v) == [ok |-> TRUE, error |-> "none", value |-> v]
Raise(e) == [ok |-> FALSE, error |-> e, value |-> NoData]

\* Geocoder.read_data
read_data(g, d) ==
    LET c == d[g.file] IN
    IF ~c.exists THEN Raise("FileNotFoundError")
    ELSE IF g.product \notin DOMAIN DATA_KEY THEN Raise("KeyError")
    ELSE IF c.var # DATA_KEY[g.product] THEN Raise("KeyError")
    ELSE IF c.shape # DATA_SHAPE[g.product] THEN Raise("ValueError")
    ELSE Return(IF g.rotation THEN np_flip(RawGrid(c.shape)) ELSE RawGrid(c.shape))

\* The first two statements of Geocoder.project: the grid is the variable
\* named data of the container, taken as it is.
project_load(g, d) ==
    LET c == d[g.file] IN
    IF ~c.exists THEN Raise("FileNotFoundError")
    ELSE IF c.var # "data" THEN Raise("AttributeError")
    ELSE Return(RawGrid(c.shape))

mktemp(files) == CHOOSE p \in TmpTifNames : files[p].kind = "absent"
NamedTemporaryFile(files) == CHOOSE p \in TmpVrtNames : files[p].kind = "absent"

\* The path write_data creates its raster at.
write_target(g, files) ==
    IF g.projection_key = "GEOS" /\ g.crs = "4326" THEN mktemp(files) ELSE g.outfile

\* The condition without its test of the requested crs.
needs_reprojection_any_crs(g) == g.projection_key \in {"GEOS", "EASE"}

\* The condition under which project calls project_to_wgs84.
needs_reprojection(g) == g.projection_key \in {"GEOS", "EASE"} /\ g.crs = "4326"

\* The geotransform GDAL computes for the warped raster.
WarpedGT == <<"warped">>

\* The exception swallowed and the method carried on to its end.
Raising_swallowed(e) ==
    /\ pc' = "print"
    /\ error' = e

Raising(e) ==
    /\ pc' = "raised"
    /\ error' = e

----------------------------------------------------------------------------
(* A caller of the library constructs a Geocoder and calls project(). *)

LibFile == InPath("h5")

LibCall ==
    /\ pc = "idle"
    /\ \E product \in ProductInputs, crs \in CrsInputs, c \in Containers :
        /\ self' = Geocoder(product, LibFile, OutPath, crs)
        /\ disk' = [disk EXCEPT ![LibFile] = c]
    /\ caller' = "lib"
    /\ pc' = "load"
    /\ UNCHANGED <<data, temp_filename, fs, pre, error, calls, stdout, cli, batch>>

(* Geocoder.project, statement by statement. *)

Load ==
    /\ pc = "load"
    /\ LET r == project_load(self, disk) IN
        IF r.ok
        THEN /\ data' = r.value
             /\ pc' = "write"
             /\ UNCHANGED error
        ELSE /\ Raising(r.error)
             /\ UNCHANGED data
    /\ UNCHANGED <<caller, self, temp_filename, disk, fs, pre, calls, stdout, cli, batch>>

\* Geocoder.write_data.  env: whether the driver's Create fails, or a later
\* write to the created file, or nothing.
WriteData ==
    /\ pc = "write"
    /\ \E env \in {"ok", "create", "write"} :
        LET t == write_target(self, fs)
            created == [kind |-> "partial", gt |-> <<>>, proj |-> "",
                        size |-> <<data.shape[2], data.shape[1]>>, ref |-> <<>>]
        IN
        /\ calls' = Append(calls, [op |-> "write_data", data |-> data, src |-> <<>>, dst |-> t])
        /\ IF env = "create"
           THEN /\ Raising("RuntimeError")
                /\ UNCHANGED <<fs, temp_filename>>
           ELSE IF self.product \notin DOMAIN TRANSFORM_DICT
           THEN /\ fs' = [fs EXCEPT ![t] = created]
                /\ Raising("KeyError")
                /\ UNCHANGED temp_filename
           ELSE IF env = "write"
           THEN /\ fs' = [fs EXCEPT ![t] = [created EXCEPT !.gt = TRANSFORM_DICT[self.product],
                                                             !.proj = self.projection_key]]
                /\ Raising("RuntimeError")
                /\ UNCHANGED temp_filename
           ELSE /\ fs' = [fs EXCEPT ![t] = [created EXCEPT !.kind = "raster",
                                                             !.gt = TRANSFORM_DICT[self.product],
                                                             !.proj = self.projection_key]]
                /\ temp_filename' = t
                /\ pc' = "branch"
                /\ UNCHANGED error
    /\ UNCHANGED <<caller, self, data, disk, pre, stdout, cli, batch>>

\* Geocoder.project_to_wgs84, called when needs_reprojection holds.  env:
\* which GDAL call fails, if any.  Translate creates its destination before it
\* reads its source through the virtual raster, so a source that is the
\* destination is read after it was truncated.
ProjectToWgs84 ==
    /\ pc = "branch"
    /\ needs_reprojection(self)
    /\ \E env \in {"ok", "warp", "translate_open", "translate_write"} :
        LET vrt == NamedTemporaryFile(fs)
            dst == self.outfile
            fs1 == [fs EXCEPT ![vrt] = [Absent EXCEPT !.kind = "empty"]]
            fs2 == [fs1 EXCEPT ![vrt] = [Absent EXCEPT !.kind = "vrt", !.ref = temp_filename]]
        IN
        /\ calls' = Append(calls, [op |-> "project_to_wgs84", data |-> NoData,
                                   src |-> temp_filename, dst |-> dst])
        /\ IF env = "warp"
           THEN fs' = fs1 /\ Raising("RuntimeError")
           ELSE IF env = "translate_open"
           THEN fs' = fs2 /\ Raising("RuntimeError")
           ELSE IF env = "translate_write"
           THEN /\ fs' = [fs2 EXCEPT ![dst] = [Absent EXCEPT !.kind = "partial"]]
                /\ Raising("RuntimeError")
           ELSE IF temp_filename = dst
           THEN /\ fs' = [fs2 EXCEPT ![dst] = [Absent EXCEPT !.kind = "corrupt"]]
                /\ pc' = "print"
                /\ UNCHANGED error
           ELSE /\ fs' = [fs2 EXCEPT ![dst] = [kind |-> "raster", gt |-> WarpedGT,
                                               proj |-> "WGS_84", size |-> <<>>, ref |-> <<>>]]
                /\ pc' = "print"
                /\ UNCHANGED error
    /\ UNCHANGED <<caller, self, data, temp_filename, disk, pre, stdout, cli, batch>>

\* The print that ends project, reached with or without the reprojection.
Finish ==
    /\ \/ pc = "print"
       \/ pc = "branch" /\ ~needs_reprojection(self)
    /\ stdout' = Append(stdout, "created")
    /\ pc' = "done"
    /\ UNCHANGED <<caller, self, data, temp_filename, disk, fs, pre, error, calls, cli, batch>>

----------------------------------------------------------------------------
(* A caller of the library calls read_data() on a fresh Geocoder. *)

ReadDataCall ==
    /\ pc = "idle"
    /\ \E product \in ProductInputs, c \in Containers :
        LET g == Geocoder(product, LibFile, OutPath, "4326")
            d == [disk EXCEPT ![LibFile] = c]
            r == read_data(g, d)
        IN
        /\ self' = g
        /\ disk' = d
        /\ calls' = Append(calls, [op |-> "read_data", data |-> NoData, src |-> g.file, dst |-> <<>>])
        /\ IF r.ok
           THEN /\ data' = r.value
                /\ pc' = "returned"
                /\ UNCHANGED error
           ELSE /\ Raising(r.error)
                /\ UNCHANGED data
    /\ caller' = "test"
    /\ UNCHANGED <<temp_filename, fs, pre, stdout, cli, batch>>

----------------------------------------------------------------------------
(* The geocode command of geocoder_app.py. *)

file_format_dict ==
    ("H10" :> {"hdf", "h5", "H5"}) @@ ("H34" :> {"hdf", "h5", "H5"}) @@ ("H13" :> {"grib2"}) @@
    ("H11" :> {"grib2"}) @@ ("H12" :> {"grib2"}) @@ ("H35" :> {"grib2"})

\* file_path.endswith(ext), for the extensions of ExtInputs
EndsWith(path, ext) == path[Len(path)] = ext

validate_file(file_path, product, d) ==
    LET valid_extensions ==
            IF Upper(product) \in DOMAIN file_format_dict
            THEN file_format_dict[Upper(product)] ELSE {}
    IN d[file_path].exists /\ \E ext \in valid_extensions : EndsWith(file_path, ext)

\* A list of valid products with a code the registry tables do not have.
validate_product_unregistered(product) ==
    Upper(product) \in {"H10", "H11", "H34", "H13", "H12", "H35", "ZZ9"}

validate_product(product) == Upper(product) \in {"H10", "H11", "H34", "H13", "H12", "H35"}

validate_crs(crs) == crs \in {"4326", "GEOS"}

\* The validations without the one of the crs.
geocode_validation_no_crs(product, crs, input_file, d) ==
    IF ~validate_product(product) THEN [checks |-> <<"product">>, ok |-> FALSE]
    ELSE IF ~validate_file(input_file, product, d)
    THEN [checks |-> <<"product", "file">>, ok |-> FALSE]
    ELSE [checks |-> <<"product", "file">>, ok |-> TRUE]

\* The three validations of geocode, in the order made: the ones evaluated
\* and whether all passed.
geocode_validation(product, crs, input_file, d) ==
    IF ~validate_product(product) THEN [checks |-> <<"product">>, ok |-> FALSE]
    ELSE IF ~validate_crs(crs) THEN [checks |-> <<"product", "crs">>, ok |-> FALSE]
    ELSE IF ~validate_file(input_file, product, d)
    THEN [checks |-> <<"product", "crs", "file">>, ok |-> FALSE]
    ELSE [checks |-> <<"product", "crs", "file">>, ok |-> TRUE]

\* geocode up to the call of project(), or to the exit of a failed validation.
CliGeocode ==
    /\ pc = "idle"
    /\ \E product \in ProductInputs, crs \in CrsInputs, ext \in ExtInputs, c \in Containers :
        LET input_file == InPath(ext)
            d == [disk EXCEPT ![input_file] = c]
            v == geocode_validation(product, crs, input_file, d)
        IN
        /\ disk' = d
        /\ IF v.ok
           THEN /\ self' = Geocoder(product, input_file, OutPath, crs)
                /\ pc' = "load"
                /\ cli' = [product |-> product, crs |-> crs, input_file |-> input_file,
                           checks |-> v.checks, caught |-> "none", exit |-> -1]
                /\ UNCHANGED stdout
           ELSE /\ stdout' = Append(stdout, "invalid")
                /\ pc' = "exited"
                /\ cli' = [product |-> product, crs |-> crs, input_file |-> input_file,
                           checks |-> v.checks, caught |-> "none", exit |-> 1]
                /\ UNCHANGED self
    /\ caller' = "cli"
    /\ UNCHANGED <<data, temp_filename, fs, pre, error, calls, batch>>

\* project() returned: geocode echoes and returns.
CliComplete ==
    /\ caller = "cli"
    /\ pc = "done"
    /\ stdout' = Append(stdout, "complete")
    /\ cli' = [cli EXCEPT !.exit = 0]
    /\ pc' = "exited"
    /\ UNCHANGED <<caller, self, data, temp_filename, disk, fs, pre, error, calls, batch>>

\* The except clause of geocode.
CliExcept ==
    /\ caller = "cli"
    /\ pc = "raised"
    /\ stdout' = Append(stdout, "error")
    /\ cli' = [cli EXCEPT !.caught = error, !.exit = 1]
    /\ error' = "none"
    /\ pc' = "exited"
    /\ UNCHANGED <<caller, self, data, temp_filename, disk, fs, pre, calls, batch>>

----------------------------------------------------------------------------
(* The batch driver: the __main__ block of geocoder.py. *)

\* What glob finds: files that exist.
BatchContainers ==
    {[exists |-> TRUE, var |-> v, shape |-> s] :
        v \in {"data", "rssc"}, s \in {DATA_SHAPE["H35"], <<2, 2>>}}

\* The loop left at the first exception.
batch_next_abort(i, n, raised) == IF raised THEN n + 1 ELSE i + 1

\* The index of the file the loop takes after file i of n, whether or not
\* project() raised on it.
batch_next(i, n, raised) == i + 1

BatchStart ==
    /\ pc = "idle"
    /\ \E n \in 0..MaxFiles :
        /\ n <= Len(BatchNames)
        /\ \E cs \in [1..n -> BatchContainers] :
            /\ batch' = [files |-> SubSeq(BatchNames, 1, n), i |-> 1, attempted |-> <<>>,
                         failed |-> {}]
            /\ disk' = [p \in InputPaths |->
                          IF \E k \in 1..n : BatchNames[k] = p
                          THEN cs[CHOOSE k \in 1..n : BatchNames[k] = p] ELSE disk[p]]
    /\ caller' = "batch"
    /\ pc' = "batch_loop"
    /\ UNCHANGED <<self, data, temp_filename, fs, pre, error, calls, stdout, cli>>

\* One turn of the for loop, up to the call of project().
BatchIter ==
    /\ pc = "batch_loop"
    /\ batch.i <= Len(batch.files)
    /\ LET file == batch.files[batch.i] IN
        /\ self' = Geocoder("H35", file, BatchOutfile(file), "4326")
        /\ batch' = [batch EXCEPT !.attempted = Append(@, file)]
    /\ data' = NoData
    /\ temp_filename' = <<>>
    /\ pre' = fs
    /\ calls' = <<>>
    /\ pc' = "load"
    /\ UNCHANGED <<caller, disk, fs, error, stdout, cli>>

BatchReturn ==
    /\ caller = "batch"
    /\ pc = "done"
    /\ batch' = [batch EXCEPT !.i = batch_next(batch.i, Len(batch.files), FALSE)]
    /\ pc' = "batch_loop"
    /\ UNCHANGED <<caller, self, data, temp_filename, disk, fs, pre, error, calls, stdout, cli>>

\* The except clause of the loop body.
BatchExcept ==
    /\ caller = "batch"
    /\ pc = "raised"
    /\ stdout' = Append(stdout, "error")
    /\ batch' = [batch EXCEPT !.i = batch_next(batch.i, Len(batch.files), TRUE),
                              !.failed = @ \cup {batch.i}]
    /\ error' = "none"
    /\ pc' = "batch_loop"
    /\ UNCHANGED <<caller, self, data, temp_filename, disk, fs, pre, calls, cli>>

BatchEnd ==
    /\ pc = "batch_loop"
    /\ batch.i > Len(batch.files)
    /\ pc' = "exited"
    /\ UNCHANGED <<caller, self, data, temp_filename, disk, fs, pre, error, calls, stdout, cli, batch>>

Next ==
    \/ LibCall
    \/ Load
    \/ WriteData
    \/ ProjectToWgs84
    \/ Finish
    \/ ReadDataCall
    \/ CliGeocode
    \/ CliComplete
    \/ CliExcept
    \/ BatchStart
    \/ BatchIter
    \/ BatchReturn
    \/ BatchExcept
    \/ BatchEnd

Spec == Init /\ [][Next]_vars

----------------------------------------------------------------------------
(* Vocabulary of the properties. *)

Registered == (DOMAIN TRANSFORM_DICT) \cap (DOMAIN DATA_KEY) \cap (DOMAIN DATA_SHAPE)
NonGeographicProducts == {"H10", "H34", "H43", "H65"}
GeographicProducts == {"H11", "H12", "H13", "H35"}

\* The program is inside project(), or project() has just ended.
InProject == caller \in {"lib", "cli", "batch"} /\ pc \in {"load", "write", "branch", "print", "done", "raised"}
ProjectEnded == InProject /\ pc \in {"done", "raised"}

CallsOf(op) == SelectSeq(calls, LAMBDA c : c.op = op)

\* C1: for a product code that is not registered, project() ends in an
\* unknown-product error (the failed registry lookup) and no file is ever
\* created at the output path.
C1_UnknownProductFailsClosed ==
    (InProject /\ self.product \notin Registered) =>
        /\ fs[self.outfile] = pre[self.outfile]
        /\ ProjectEnded => (pc = "raised" /\ error = "KeyError")

\* C2: for a registered non-geographic product and crs '4326', a successful
\* project() has called the reprojection exactly once, with the output path
\* as its destination.
C2_NonGeographicReprojectedOnce ==
    (InProject /\ pc = "done" /\ self.product \in NonGeographicProducts /\ self.crs = "4326") =>
        /\ Len(CallsOf("project_to_wgs84")) = 1
        /\ CallsOf("project_to_wgs84")[1].dst = self.outfile

\* C3: for a geographic product, and for every registered product when crs is
\* 'GEOS', project() never calls the reprojection, write_data writes to the
\* output path with the registry's geotransform of the product, and that file
\* is what a successful run leaves at the output path.
C3_NoReprojectionWhenNative ==
    (InProject /\ (self.product \in GeographicProducts
                   \/ (self.product \in Registered /\ self.crs = "GEOS"))) =>
        /\ CallsOf("project_to_wgs84") = <<>>
        /\ \A k \in DOMAIN calls : calls[k].op = "write_data" => calls[k].dst = self.outfile
        /\ pc \in {"branch", "print", "done"} =>
            /\ temp_filename = self.outfile
            /\ fs[self.outfile].kind = "raster"
            /\ fs[self.outfile].gt = TRANSFORM_DICT[self.product]
            /\ \A p \in TmpTifNames \cup TmpVrtNames : fs[p] = Absent

C3_Witness ==
    /\ InProject
    /\ pc = "done"
    /\ self.product = "H10"
    /\ self.crs = "GEOS"
    /\ fs[OutPath].gt = TRANSFORM_DICT["H10"]

\* C4: write_data writes to a temporary path, different from the output path,
\* exactly when the product is non-geographic and crs is '4326', and to the
\* output path otherwise; the source of every reprojection is that temporary
\* path and is not its destination.
C4_TempExactlyWhenReprojecting ==
    (InProject /\ self.product \in Registered) =>
        /\ \A k \in DOMAIN calls : calls[k].op = "write_data" =>
            IF self.product \in NonGeographicProducts /\ self.crs = "4326"
            THEN calls[k].dst \in TmpTifNames /\ calls[k].dst # self.outfile
            ELSE calls[k].dst = self.outfile
        /\ \A k \in DOMAIN calls : calls[k].op = "project_to_wgs84" =>
            calls[k].src \in TmpTifNames /\ calls[k].src # calls[k].dst

\* C5: when project() has ended, by returning or by raising, no temporary file
\* it made still exists.
C5_NoTemporaryFileRemains ==
    ProjectEnded => \A p \in TmpTifNames \cup TmpVrtNames : fs[p].kind = "absent"

\* The raster a successful run is to leave at the output path.
IsFinalRaster(f) ==
    /\ f.kind = "raster"
    /\ (self.product \in NonGeographicProducts /\ self.crs = "4326") => f.proj = "WGS_84"

\* C6: when project() has raised, the file at the output path is as it was
\* before the run or is a complete final raster.
C6_NoPartialResultOnFailure ==
    (InProject /\ pc = "raised") =>
        \/ fs[self.outfile] = pre[self.outfile]
        \/ IsFinalRaster(fs[self.outfile])

\* The grid project() extracts has dimensions other than the product expects.
ShapeMismatch ==
    /\ self.product \in Registered
    /\ disk[self.file].exists
    /\ disk[self.file].var = "data"
    /\ disk[self.file].shape # DATA_SHAPE[self.product]

\* C7: a run whose extracted grid has not the expected shape fails with the
\* shape error before write_data is entered and creates no raster; a run
\* whose grid has the expected shape gets past loading.
C7_ShapeCheckedBeforeWrite ==
    /\ (InProject /\ ShapeMismatch) =>
        /\ CallsOf("write_data") = <<>>
        /\ fs = pre
        /\ pc \in {"load", "raised"}
        /\ pc = "raised" => error = "ValueError"
    /\ (InProject /\ self.product \in Registered /\ disk[self.file].exists
        /\ disk[self.file].var = "data" /\ disk[self.file].shape = DATA_SHAPE[self.product]
        /\ pc = "raised") => CallsOf("write_data") # <<>>


\* The three validations of geocode, in the order the command makes them.
CliChecks == <<"product", "crs", "file">>

CliInputsValid ==
    /\ validate_product(cli.product)
    /\ validate_crs(cli.crs)
    /\ validate_file(cli.input_file, cli.product, disk)

\* C8: geocode runs the pipeline only after the product, the crs and the
\* input file were validated, in that order, and all passed; it exits with 0
\* exactly when all three pass and project() raises nothing, and with 1
\* otherwise; after a failed validation nothing was loaded, written or
\* reprojected.
C8_CliValidatesThenRuns ==
    caller = "cli" =>
        /\ cli.checks = SubSeq(CliChecks, 1, Len(cli.checks))
        /\ Len(cli.checks) >= 1
        /\ Len(cli.checks) >= 2 => validate_product(cli.product)
        /\ Len(cli.checks) >= 3 => validate_crs(cli.crs)
        /\ (self # NoSelf \/ calls # <<>> \/ fs # pre \/ data # NoData) =>
            (cli.checks = CliChecks /\ CliInputsValid)
        /\ ~CliInputsValid =>
            /\ pc = "exited"
            /\ cli.exit = 1
            /\ calls = <<>> /\ fs = pre /\ data = NoData /\ self = NoSelf
        /\ pc = "exited" =>
            /\ cli.exit \in {0, 1}
            /\ cli.exit = 0 <=>
                (CliInputsValid /\ cli.caught = "none" /\ stdout = <<"created", "complete">>)
            /\ cli.exit = 1 <=> (~CliInputsValid \/ cli.caught # "none")
        /\ pc # "exited" => cli.exit = -1

\* geocode ran the pipeline and exited with 0.
C8_Witness ==
    /\ caller = "cli"
    /\ pc = "exited"
    /\ cli.exit = 0
    /\ cli.product = "h10"
    /\ fs[OutPath].kind = "raster"

\* C9: the batch driver attempts every file of its list exactly once, in the
\* order of the list and one at a time; a file on which project() raises does
\* not keep a later file from being attempted.
C9_BatchAttemptsEveryFile ==
    caller = "batch" =>
        /\ batch.attempted = SubSeq(batch.files, 1, Len(batch.attempted))
        /\ pc = "batch_loop" => Len(batch.attempted) = batch.i - 1
        /\ InProject =>
            /\ Len(batch.attempted) = batch.i
            /\ self.file = batch.files[batch.i]
        /\ \A k \in batch.failed : k \in 1..Len(batch.attempted)
        /\ pc = "exited" => batch.attempted = batch.files

\* The batch ended after project() raised on its first file and returned on
\* its last.
C9_Witness ==
    /\ caller = "batch"
    /\ pc = "exited"
    /\ Len(batch.files) >= 2
    /\ 1 \in batch.failed
    /\ Len(batch.files) \notin batch.failed
    /\ batch.attempted = batch.files

\* Indices that see both ends of an axis of length n.
ProbeIdx(n) == {k \in {0, 1, n - 2, n - 1} : k >= 0 /\ k < n}

TableKeys ==
    {TRANSFORM_DICT_keys[k] : k \in DOMAIN TRANSFORM_DICT_keys}
    \cup {DATA_KEY_keys[k] : k \in DOMAIN DATA_KEY_keys}
    \cup {DATA_SHAPE_keys[k] : k \in DOMAIN DATA_SHAPE_keys}

EntriesOf(keys, p) == Cardinality({k \in DOMAIN keys : keys[k] = p})

\* The decimal texts of zero.
ZeroTexts == {"0.0", "-0.0", "0", "-0", "0."}

\* The code has one entry in each table, a geotransform of six coefficients
\* with pixel width and pixel height other than zero, and a shape of two
\* positive dimensions.
WellRegistered(p) ==
    /\ EntriesOf(TRANSFORM_DICT_keys, p) = 1
    /\ EntriesOf(DATA_KEY_keys, p) = 1
    /\ EntriesOf(DATA_SHAPE_keys, p) = 1
    /\ p \in DOMAIN TRANSFORM_DICT /\ p \in DOMAIN DATA_KEY /\ p \in DOMAIN DATA_SHAPE
    /\ Len(TRANSFORM_DICT[p]) = 6
    /\ TRANSFORM_DICT[p][2] \notin ZeroTexts
    /\ TRANSFORM_DICT[p][6] \notin ZeroTexts
    /\ Len(DATA_SHAPE[p]) = 2
    /\ DATA_SHAPE[p][1] > 0
    /\ DATA_SHAPE[p][2] > 0

\* C11: every product code that validate_product accepts, and every key of
\* TRANSFORM_DICT, DATA_KEY or DATA_SHAPE, has exactly one entry in each of
\* the three tables, with a geotransform of six coefficients whose pixel width
\* and pixel height are not zero and a shape of two positive dimensions; so
\* has the product of every command that passed the product validation and of
\* every Geocoder built for a code one of the tables has.
C11_AcceptedProductsWellRegistered ==
    /\ \A p \in ProductInputs \cup TableKeys :
        (validate_product(p) \/ Upper(p) \in TableKeys) => WellRegistered(Upper(p))
    /\ DOMAIN TRANSFORM_DICT \cup DOMAIN DATA_KEY \cup DOMAIN DATA_SHAPE = TableKeys
    /\ (caller = "cli" /\ Len(cli.checks) >= 2) => WellRegistered(Upper(cli.product))
    /\ (self # NoSelf /\ self.product \in TableKeys) => WellRegistered(self.product)
    /\ \A p \in OutputPaths : fs[p].gt \in {TRANSFORM_DICT[q] : q \in DOMAIN TRANSFORM_DICT} =>
        (Len(fs[p].gt) = 6 /\ fs[p].gt[2] \notin ZeroTexts /\ fs[p].gt[6] \notin ZeroTexts)

\* The command accepted H35 and left a raster with the H35 geotransform.
C11_Witness ==
    /\ caller = "cli"
    /\ pc = "exited"
    /\ cli.exit = 0
    /\ validate_product(cli.product)
    /\ self.product = "H35"
    /\ fs[OutPath].kind = "raster"
    /\ fs[OutPath].gt = TRANSFORM_DICT["H35"]
    /\ fs[OutPath].size = <<DATA_SHAPE["H35"][2], DATA_SHAPE["H35"][1]>>

\* C12: a successful project() has called read_data once, then write_data
\* once with the grid read_data returned, then the reprojection at most once
\* with the path write_data returned, each after the one before it returned.
C12_StepsInOrder ==
    (InProject /\ pc = "done") =>
        /\ Len(calls) \in {2, 3}
        /\ calls[1].op = "read_data"
        /\ calls[2].op = "write_data"
        /\ read_data(self, disk).ok
        /\ calls[2].data = read_data(self, disk).value
        /\ calls[2].data = data
        /\ Len(calls) = 3 =>
            /\ calls[3].op = "project_to_wgs84"
            /\ calls[3].src = temp_filename
            /\ calls[2].dst = temp_filename

\* The exception the step at pc raises when it fails.
StepRaises(e) ==
    CASE pc = "load" -> (e = project_load(self, disk).error /\ ~project_load(self, disk).ok)
      [] pc = "write" -> (e = "RuntimeError"
                          \/ (e = "KeyError" /\ self.product \notin DOMAIN TRANSFORM_DICT))
      [] pc = "branch" -> (e = "RuntimeError" /\ needs_reprojection(self))
      [] OTHER -> FALSE

CountOf(seq, x) == Cardinality({k \in DOMAIN seq : seq[k] = x})

\* A step of project() has failed and its exception has not been caught yet.
Failed == caller \in {"lib", "cli", "batch"} /\ error # "none"

\* While project() has failed: it is at its raise, and this run printed no
\* success message.
FailedIsAtRaise ==
    Failed =>
        /\ pc = "raised"
        /\ caller \in {"lib", "cli"} => CountOf(stdout, "created") = 0
        /\ caller = "cli" => cli.exit = -1
        /\ caller = "batch" =>
            CountOf(stdout, "created") = batch.i - 1 - Cardinality(batch.failed)

\* A step out of a failed project(), and the step that fails: no method of the
\* pipeline runs, nothing is written or printed but the caller's report of the
\* error, the caller gets the exception the step raised, and the loop of the
\* batch driver goes on to another file.
FailedStep ==
    /\ Failed =>
        /\ pc' \in {"raised", "exited", "batch_loop"}
        /\ calls' = calls
        /\ fs' = fs
        /\ data' = data
        /\ temp_filename' = temp_filename
        /\ self' = self
        /\ stdout' \in {stdout, Append(stdout, "error")}
        /\ error' \in {error, "none"}
        /\ (caller = "cli" /\ error' = "none") => (cli'.caught = error /\ cli'.exit = 1)
        /\ (caller = "batch" /\ error' = "none") =>
            (batch.i \in batch'.failed /\ batch'.i > batch.i)
    /\ (InProject /\ error = "none" /\ error' # "none") =>
        /\ StepRaises(error')
        /\ stdout' = stdout
        /\ data' = data
        /\ temp_filename' = temp_filename

====
